---- MODULE Spec2Model ----
(***************************************************************************)
(* Model of the Sass stylesheet language adapter                           *)
(* (builders/browser-esbuild/stylesheets/sass-language.ts) and of the      *)
(* stylesheet bundle options (stylesheets/bundle-options.ts).              *)
(*                                                                         *)
(* Spec         concurrent compileString calls and shutdownSassWorkerPool  *)
(*              sharing the module-level sassWorkerPool.                   *)
(* SpecCompile  one compileString call with its logger, its search paths   *)
(*              and the result it builds from the compiler's outcome.      *)
(* SpecImport   one run of the findFileUrl importer over build.resolve.    *)
(***************************************************************************)
EXTENDS Integers, Sequences, FiniteSets, TLC

(* ------------------------------ bounds --------------------------------- *)

\* Number of compileString calls that may be in flight together.
NReq == 2
\* Number of shutdownSassWorkerPool calls in a row.
MaxShutdown == 2
\* Number of logger.warn calls during one compilation.
MaxWarn == 2
\* Largest 0-based line number the Sass engine reports.
MaxLine == 1
\* Number of previously resolved directories handed to the importer.
MaxPrevious == 2
\* Number of bundleComponentStylesheet calls that may be in flight together.
NBundle == 2
\* Number of output files of one bundling pass.
MaxFiles == 3

Requests == 1..NReq
BundleCalls == 1..NBundle

(* --------------------------- JavaScript values ------------------------- *)

\* The JavaScript value undefined, and a defined value v.
undefined == [defined |-> FALSE]
Some(v) == [defined |-> TRUE, value |-> v]

\* A file system path: absolute or relative, and its segments.
Abs(segs) == [abs |-> TRUE, segs |-> segs]
Rel(segs) == [abs |-> FALSE, segs |-> segs]

\* node:path dirname: the path without its last segment.
dirname(p) ==
  IF Len(p.segs) = 0 THEN p
  ELSE [abs |-> p.abs, segs |-> SubSeq(p.segs, 1, Len(p.segs) - 1)]

\* node:path resolve(from, to): an absolute `to` wins, a relative one is
\* appended to `from`.
resolve(from, to) ==
  IF to.abs THEN to ELSE [abs |-> TRUE, segs |-> from.segs \o to.segs]

\* node:url pathToFileURL and fileURLToPath.
pathToFileURL(p) == [protocol |-> "file:", pathname |-> p.segs]
fileURLToPath(u) == Abs(u.pathname)

(* ------------------------------- state --------------------------------- *)

VARIABLES
  sassWorkerPool,    \* NoPool, or the index in pools of the current pool
  pools,             \* every SassWorkerImplementation constructed so far
  pc,                \* per call: "idle", "import", "compiling", "done"
  input,             \* per call: the arguments of process()
  call,              \* per call: the compileStringAsync request it issued
  warnings,          \* per call: the local warnings array
  outcome,           \* per call: what compileString returned or threw
  reply,             \* per call: how compileStringAsync settled
  reported,          \* history: per call, what the engine told the logger
  shutdownSeen,      \* history: shutdownSassWorkerPool has been called
  shutdownRun,       \* history: shutdown calls since the last other step
  reusedAfterFailure, \* history: a call was dispatched after another failed
  startedSinceShutdown, \* history: a call was entered after the last shutdown
  imp,               \* the findFileUrl run: its arguments and position
  resolveLog,        \* history: the build.resolve calls of the run, in order
  ret,               \* what findFileUrl returned
  componentStyleCounter, \* the module-level counter of component styles
  bundle             \* per bundleComponentStylesheet call: its locals

compileVars == <<sassWorkerPool, pools, pc, input, call, warnings, outcome,
                 reply, reported, shutdownSeen, shutdownRun, reusedAfterFailure,
                 startedSinceShutdown>>
importVars == <<imp, resolveLog, ret>>
bundleVars == <<componentStyleCounter, bundle>>
vars == <<compileVars, importVars, bundleVars>>

\* let sassWorkerPool: SassWorkerImplementation | undefined;
NoPool == 0

NoInput == [set |-> FALSE]
NoCall == [issued |-> FALSE]
Pending == [kind |-> "pending"]

(* ------------------- createStylesheetBundleOptions --------------------- *)

\* The StylesheetPluginOptions the plugin factory is constructed with.
createStylesheetBundleOptions(options) ==
  LET Absolute(includePath) == resolve(options.workspaceRoot, includePath)
      includePaths ==
        IF options.includePaths.defined
          THEN Some([i \in 1..Len(options.includePaths.value) |->
                       Absolute(options.includePaths.value[i])])
          ELSE undefined
  IN [sourcemap |-> options.sourcemap # "false",
      includePaths |-> includePaths]

(* ----------------------------- compileString --------------------------- *)

isSassException(error) ==
  error.typeof = "object" /\ "sassMessage" \in error.keys

\* const syntax = format === 'sass' ? 'indented' : 'scss';
SyntaxOf(format) == IF format = "sass" THEN "indented" ELSE "scss"

\* Mutant: the entry's directory is put in front of the include paths.
CompileOptionsWithEntryDir(filePath, syntax, options) ==
  [url |-> pathToFileURL(filePath),
   style |-> "expanded",
   syntax |-> syntax,
   loadPaths |-> Some(<<dirname(filePath)>> \o
                      (IF options.includePaths.defined
                         THEN options.includePaths.value ELSE <<>>)),
   sourceMap |-> options.sourcemap,
   sourceMapIncludeSources |-> options.sourcemap,
   quietDeps |-> TRUE]

\* The options object handed to compileStringAsync.
CompileOptions(filePath, syntax, options) ==
  [url |-> pathToFileURL(filePath),
   style |-> "expanded",
   syntax |-> syntax,
   loadPaths |-> options.includePaths,
   sourceMap |-> options.sourcemap,
   sourceMapIncludeSources |-> options.sourcemap,
   quietDeps |-> TRUE]

\* Mutant: the engine's 0-based line is passed on as it is.
LoggerWarnZeroBased(text, deprecation, span) ==
  [text |-> IF deprecation THEN "Deprecation" ELSE text,
   location |->
     IF span.defined
       THEN Some([file |-> IF span.value.url.defined
                             THEN Some(fileURLToPath(span.value.url.value))
                             ELSE undefined,
                  lineText |-> span.value.context,
                  line |-> span.value.start.line,
                  column |-> span.value.start.column])
       ELSE undefined,
   notes |-> IF deprecation THEN Some(<<[text |-> text]>>) ELSE undefined]

\* The message logger.warn pushes for one engine report.
LoggerWarn(text, deprecation, span) ==
  [text |-> IF deprecation THEN "Deprecation" ELSE text,
   location |->
     IF span.defined
       THEN Some([file |-> IF span.value.url.defined
                             THEN Some(fileURLToPath(span.value.url.value))
                             ELSE undefined,
                  lineText |-> span.value.context,
                  line |-> span.value.start.line + 1,
                  column |-> span.value.start.column])
       ELSE undefined,
   notes |-> IF deprecation THEN Some(<<[text |-> text]>>) ELSE undefined]

\* node:path relative(root, p) for absolute paths: drop the common prefix,
\* climb out of what is left of root.
RECURSIVE CommonPrefix(_, _)
CommonPrefix(a, b) ==
  IF a = <<>> \/ b = <<>> \/ Head(a) # Head(b) THEN 0
  ELSE 1 + CommonPrefix(Tail(a), Tail(b))

relative(root, p) ==
  LET n == CommonPrefix(root.segs, p.segs)
  IN Rel([i \in 1..(Len(root.segs) - n) |-> ".."]
         \o SubSeq(p.segs, n + 1, Len(p.segs)))

\* The trailing comment that embeds the source map, its sources rewritten.
sourceMapToUrlComment(sourceMap, root) ==
  LET Rewrite(source) == relative(root, fileURLToPath(source))
  IN [comment |-> "sourceMappingURL=data:application/json;base64",
      sources |-> [i \in 1..Len(sourceMap.sources) |-> Rewrite(sourceMap.sources[i])]]

\* Mutant: the success result starts from an empty warnings list.
SuccessResultDropsWarnings(compiled, filePath, warns) ==
  [loader |-> "css",
   contents |->
     IF compiled.sourceMap.defined
       THEN <<compiled.css, "\n",
              sourceMapToUrlComment(compiled.sourceMap.value, dirname(filePath))>>
       ELSE <<compiled.css>>,
   watchFiles |-> [i \in 1..Len(compiled.loadedUrls) |->
                     fileURLToPath(compiled.loadedUrls[i])],
   warnings |-> <<>>]

\* The OnLoadResult of a compilation that resolved.
SuccessResult(compiled, filePath, warns) ==
  [loader |-> "css",
   contents |->
     IF compiled.sourceMap.defined
       THEN <<compiled.css, "\n",
              sourceMapToUrlComment(compiled.sourceMap.value, dirname(filePath))>>
       ELSE <<compiled.css>>,
   watchFiles |-> [i \in 1..Len(compiled.loadedUrls) |->
                     fileURLToPath(compiled.loadedUrls[i])],
   warnings |-> warns]

\* Mutant: the offending file is not watched.
SassErrorResultUnwatched(error, warns) ==
  [loader |-> "css",
   errors |-> <<[text |-> error.message]>>,
   warnings |-> warns,
   watchFiles |-> undefined]

\* Mutant: the error entry gets a location and loses its text.
SassErrorResultLocated(error, warns) ==
  [loader |-> "css",
   errors |-> <<[location |-> [file |-> error.span.url]]>>,
   warnings |-> warns,
   watchFiles |-> IF error.span.url.defined
                    THEN Some(<<fileURLToPath(error.span.url.value)>>)
                    ELSE undefined]

\* The OnLoadResult built in the catch block for a Sass exception.
SassErrorResult(error, warns) ==
  LET file == IF error.span.url.defined
                THEN Some(fileURLToPath(error.span.url.value))
                ELSE undefined
  IN [loader |-> "css",
      errors |-> <<[text |-> error.message]>>,
      warnings |-> warns,
      watchFiles |-> IF file.defined THEN Some(<<file.value>>) ELSE undefined]

\* Mutant: every rejection is turned into an error result.
CatchSwallowsAll(error, warns) ==
  IF isSassException(error)
    THEN [kind |-> "returned", value |-> SassErrorResult(error, warns)]
    ELSE [kind |-> "returned",
          value |-> [loader |-> "css", errors |-> <<[text |-> error.message]>>,
                     warnings |-> warns, watchFiles |-> undefined]]

\* What the catch block does with a rejection.
CatchOutcome(error, warns) ==
  IF isSassException(error)
    THEN [kind |-> "returned", value |-> SassErrorResult(error, warns)]
    ELSE [kind |-> "thrown", error |-> error]

Failed(r) ==
  /\ pc[r] = "done"
  /\ \/ outcome[r].kind = "thrown"
     \/ outcome[r].kind = "returned" /\ "errors" \in DOMAIN outcome[r].value

\* const warnings = []; await sassWorkerPool.compileStringAsync(data, {...})
Dispatch(r, pool, in) ==
  /\ call' = [call EXCEPT ![r] =
       [issued |-> TRUE, pool |-> pool,
        options |-> CompileOptions(in.filePath, SyntaxOf(in.format), in.options)]]
  /\ warnings' = [warnings EXCEPT ![r] = <<>>]
  /\ reusedAfterFailure' = (reusedAfterFailure \/ \E s \in Requests : Failed(s))
  /\ pc' = [pc EXCEPT ![r] = "compiling"]

\* process() enters compileString: with a pool it dispatches at once, without
\* one it suspends on the dynamic import of the sass service.
compileString(r, in) ==
  /\ pc[r] = "idle"
  /\ input' = [input EXCEPT ![r] = in]
  /\ IF sassWorkerPool = NoPool
       THEN /\ pc' = [pc EXCEPT ![r] = "import"]
            /\ UNCHANGED <<call, warnings, reusedAfterFailure>>
       ELSE Dispatch(r, sassWorkerPool, in)
  /\ shutdownRun' = 0
  /\ startedSinceShutdown' = TRUE
  /\ UNCHANGED <<sassWorkerPool, pools, outcome, reply, reported, shutdownSeen>>
  /\ UNCHANGED <<importVars, bundleVars>>

\* The import resolved: construct a pool, store it, dispatch to it.
ConstructPool(r) ==
  /\ pc[r] = "import"
  /\ pools' = Append(pools, [closeCalls |-> 0])
  /\ sassWorkerPool' = Len(pools) + 1
  /\ Dispatch(r, sassWorkerPool', input[r])
  /\ shutdownRun' = 0
  /\ UNCHANGED <<input, outcome, reply, reported, shutdownSeen, startedSinceShutdown>>
  /\ UNCHANGED <<importVars, bundleVars>>

\* The engine reports a warning through the logger while compiling.
LoggerWarnCall(r, text, deprecation, span) ==
  /\ pc[r] = "compiling"
  /\ Len(warnings[r]) < MaxWarn
  /\ warnings' = [warnings EXCEPT ![r] = Append(@, LoggerWarn(text, deprecation, span))]
  /\ reported' = [reported EXCEPT ![r] =
       Append(@, [text |-> text, deprecation |-> deprecation, span |-> span])]
  /\ shutdownRun' = 0
  /\ UNCHANGED <<sassWorkerPool, pools, pc, input, call, outcome, reply,
                 shutdownSeen, reusedAfterFailure, startedSinceShutdown>>
  /\ UNCHANGED <<importVars, bundleVars>>

\* compileStringAsync resolved.
CompileResolved(r, compiled) ==
  /\ pc[r] = "compiling"
  /\ outcome' = [outcome EXCEPT ![r] =
       [kind |-> "returned",
        value |-> SuccessResult(compiled, input[r].filePath, warnings[r])]]
  /\ reply' = [reply EXCEPT ![r] = [kind |-> "resolved", value |-> compiled]]
  /\ pc' = [pc EXCEPT ![r] = "done"]
  /\ shutdownRun' = 0
  /\ UNCHANGED <<sassWorkerPool, pools, input, call, warnings, reported,
                 shutdownSeen, reusedAfterFailure, startedSinceShutdown>>
  /\ UNCHANGED <<importVars, bundleVars>>

\* Mutant: the catch block drops the pool.
CompileRejectedDropsPool(r, error) ==
  /\ pc[r] = "compiling"
  /\ outcome' = [outcome EXCEPT ![r] = CatchOutcome(error, warnings[r])]
  /\ reply' = [reply EXCEPT ![r] = [kind |-> "rejected", error |-> error]]
  /\ pc' = [pc EXCEPT ![r] = "done"]
  /\ sassWorkerPool' = NoPool
  /\ shutdownRun' = 0
  /\ UNCHANGED <<pools, input, call, warnings, reported,
                 shutdownSeen, reusedAfterFailure, startedSinceShutdown>>
  /\ UNCHANGED <<importVars, bundleVars>>

\* compileStringAsync rejected: the catch block.
CompileRejected(r, error) ==
  /\ pc[r] = "compiling"
  /\ outcome' = [outcome EXCEPT ![r] = CatchOutcome(error, warnings[r])]
  /\ reply' = [reply EXCEPT ![r] = [kind |-> "rejected", error |-> error]]
  /\ pc' = [pc EXCEPT ![r] = "done"]
  /\ shutdownRun' = 0
  /\ UNCHANGED <<sassWorkerPool, pools, input, call, warnings, reported,
                 shutdownSeen, reusedAfterFailure, startedSinceShutdown>>
  /\ UNCHANGED <<importVars, bundleVars>>

\* Mutant: the pool is closed but the variable is not cleared.
shutdownKeepsPool ==
  /\ shutdownRun < MaxShutdown
  /\ pools' = IF sassWorkerPool # NoPool
                THEN [pools EXCEPT ![sassWorkerPool].closeCalls = @ + 1]
                ELSE pools
  /\ shutdownSeen' = TRUE
  /\ startedSinceShutdown' = FALSE
  /\ shutdownRun' = shutdownRun + 1
  /\ UNCHANGED <<sassWorkerPool, pc, input, call, warnings, outcome, reply,
                 reported, reusedAfterFailure>>
  /\ UNCHANGED <<importVars, bundleVars>>

\* sassWorkerPool?.close(); sassWorkerPool = undefined;
shutdownSassWorkerPool ==
  /\ shutdownRun < MaxShutdown
  /\ pools' = IF sassWorkerPool # NoPool
                THEN [pools EXCEPT ![sassWorkerPool].closeCalls = @ + 1]
                ELSE pools
  /\ sassWorkerPool' = NoPool
  /\ shutdownSeen' = TRUE
  /\ startedSinceShutdown' = FALSE
  /\ shutdownRun' = shutdownRun + 1
  /\ UNCHANGED <<pc, input, call, warnings, outcome, reply, reported, reusedAfterFailure>>
  /\ UNCHANGED <<importVars, bundleVars>>

(* ------------------------ findFileUrl / resolveUrl --------------------- *)

\* build.initialOptions.absWorkingDir, the primary resolution directory.
absWorkingDir == Abs(<<"ws">>)

\* The path segments that start with '@'.
ScopeSegments == {"@s"}

\* const hasScope = parts.length >= 2 && parts[0].startsWith('@');
hasScope(parts) == Len(parts) >= 2 /\ parts[1] \in ScopeSegments

\* const packageName = hasScope ? `${nameOrScope}/${nameOrFirstPath}` : nameOrScope;
packageName(parts) ==
  IF hasScope(parts) THEN <<parts[1], parts[2]>> ELSE <<parts[1]>>

\* node:path join(dir, ...segments): empty segments contribute nothing.
join(dir, segments) ==
  [abs |-> dir.abs, segs |-> dir.segs \o SelectSeq(segments, LAMBDA x : x # "")]

\* Mutant: the first path segment of an unscoped specifier is left out.
PackageTargetDropsFirstPath(parts, packagePath) ==
  join(dirname(packagePath), SubSeq(parts, 3, Len(parts)))

\* join(dirname(packageResult.path),
\*      !hasScope && nameOrFirstPath ? nameOrFirstPath : '', ...pathPart)
PackageTarget(parts, packagePath) ==
  LET nameOrFirstPath == IF Len(parts) >= 2 THEN parts[2] ELSE ""
      pathPart == SubSeq(parts, 3, Len(parts))
  IN join(dirname(packagePath),
          <<IF ~hasScope(parts) /\ nameOrFirstPath # "" THEN nameOrFirstPath ELSE "">>
            \o pathPart)

\* Mutant: the previous directories are consulted before package.json.
AttemptsPreviousFirst ==
  <<[asks |-> "url", previous |-> FALSE],
    [asks |-> "url", previous |-> TRUE],
    [asks |-> "package.json", previous |-> FALSE],
    [asks |-> "package.json", previous |-> TRUE]>>

\* The four resolveUrl calls of findFileUrl, in program order: what each asks
\* for and whether it passes previousResolvedModules.
Attempts ==
  <<[asks |-> "url", previous |-> FALSE],
    [asks |-> "package.json", previous |-> FALSE],
    [asks |-> "url", previous |-> TRUE],
    [asks |-> "package.json", previous |-> TRUE]>>

\* The specifier an attempt hands to build.resolve.
Asked(parts, attempt) ==
  IF attempt.asks = "url" THEN parts ELSE packageName(parts) \o <<"package.json">>

\* Mutant: the last package.json result is not looked at.
FoundUrlDropsLast(parts, attempt, path) ==
  IF attempt.asks = "package.json" /\ attempt.previous
    THEN [kind |-> "null"]
    ELSE [kind |-> "url",
          url |-> IF attempt.asks = "url"
                    THEN pathToFileURL(path)
                    ELSE pathToFileURL(PackageTarget(parts, path))]

\* What findFileUrl returns when an attempt's result has a path.
FoundUrl(parts, attempt, path) ==
  [kind |-> "url",
   url |-> IF attempt.asks = "url"
             THEN pathToFileURL(path)
             ELSE pathToFileURL(PackageTarget(parts, path))]

\* Mutant: the loop over the previous directories ends one short.
TriesNextPreviousSkipsLast(attempt, dir, previous) ==
  attempt.previous /\ dir < Len(previous) - 1

\* resolveUrl, after a failed build.resolve call in directory number dir
\* (0 is absWorkingDir, k the k-th previous directory): whether it goes on to
\* the next previously resolved directory.
TriesNextPrevious(attempt, dir, previous) ==
  attempt.previous /\ dir < Len(previous)

\* The importer is called by the compiler for one import.
findFileUrl(url, previousResolvedModules) ==
  /\ imp.pc = "idle"
  /\ imp' = [pc |-> "resolving", url |-> url,
             previous |-> previousResolvedModules, attempt |-> 1, dir |-> 0]
  /\ UNCHANGED <<resolveLog, ret>>
  /\ UNCHANGED <<compileVars, bundleVars>>

\* The pending build.resolve call settles, with a path or without one, and
\* findFileUrl runs on to its next build.resolve call or to its return.
BuildResolve(path) ==
  /\ imp.pc = "resolving"
  /\ LET attempt == Attempts[imp.attempt]
         asked == Asked(imp.url, attempt)
         resolveDir == IF imp.dir = 0 THEN absWorkingDir ELSE imp.previous[imp.dir]
     IN /\ resolveLog' = Append(resolveLog,
             [attempt |-> imp.attempt, url |-> asked, resolveDir |-> resolveDir,
              path |-> path])
        /\ IF path.defined
             THEN /\ ret' = FoundUrl(imp.url, attempt, path.value)
                  /\ imp' = [imp EXCEPT !.pc = "done"]
             ELSE IF TriesNextPrevious(attempt, imp.dir, imp.previous)
               THEN /\ imp' = [imp EXCEPT !.dir = @ + 1]
                    /\ UNCHANGED ret
             ELSE IF imp.attempt < Len(Attempts)
               THEN /\ imp' = [imp EXCEPT !.attempt = @ + 1, !.dir = 0]
                    /\ UNCHANGED ret
             ELSE /\ ret' = [kind |-> "null"]
                  /\ imp' = [imp EXCEPT !.pc = "done"]
  /\ UNCHANGED <<compileVars, bundleVars>>

(* ----------------------- bundleComponentStylesheet --------------------- *)

\* A call that has not been made yet.
NotCalled == [pc |-> "idle"]

\* const namespace = 'angular:styles/component';
namespace == "angular:styles/component"

\* createHash('sha256').update(data).digest('hex'), on the stylesheet texts
\* of the environment; the digests are those SHA-256 gives for these texts.
sha256hex(data) ==
  CASE data = ".a { color: red; }" ->
         "7d180eafc302c7c9ee81d04f9d8a8e9d78db251bddd5121a3ac9498224d9226f"
    [] data = ".b { color: blue; }" ->
         "dc1a560ec501d9845fc9f765ed831a1389c8535bbda6143530bf22b3d85b0492"
    [] data = "h1 { margin: 0 }" ->
         "83411d624933b3db9b5a30895dbfb82430af55fe70fd79c9e6b78509dba00690"

\* The two kinds of value the id of a call can hold: a hex string or a number.
Digest(hex) == [kind |-> "string", hex |-> hex]
Counter(n) == [kind |-> "number", n |-> n]

ComponentStyleIdByCounter(inline, data, counter) == Counter(counter)

\* const id = inline ? createHash(...).digest('hex') : componentStyleCounter++;
\* the value the expression yields.
ComponentStyleId(inline, data, counter) ==
  IF inline THEN Digest(sha256hex(data)) ELSE Counter(counter)

NextStyleCounterStuck(inline, counter) == counter

\* ... and the value it leaves in componentStyleCounter.
NextStyleCounter(inline, counter) ==
  IF inline THEN counter ELSE counter + 1

\* The BuildOptions createStylesheetBundleOptions returns.
BuildOptions(options, inlineComponentData) ==
  LET factory == [options |-> createStylesheetBundleOptions(options),
                  inlineComponentData |-> inlineComponentData]
      create(language) == [plugin |-> language, factory |-> factory]
  IN [absWorkingDir |-> options.workspaceRoot,
      bundle |-> TRUE,
      logLevel |-> "silent",
      metafile |-> TRUE,
      sourcemap |-> options.sourcemap,
      outdir |-> options.workspaceRoot,
      write |-> FALSE,
      platform |-> "browser",
      conditions |-> <<"style", "sass">>,
      mainFields |-> <<"style", "sass">>,
      plugins |-> <<create("SassStylesheetLanguage"),
                    create("LessStylesheetLanguage"),
                    create("CssStylesheetLanguage"),
                    [plugin |-> "createCssResourcePlugin"]>>]

\* The plugin bundleComponentStylesheet makes for its entry point: what its
\* onResolve and onLoad callbacks answer.
ComponentStylesPlugin(entry, data, filename, inline) ==
  [plugin |-> "angular-component-styles",
   onResolve |-> IF inline THEN [path |-> entry, namespace |-> namespace]
                           ELSE [path |-> filename],
   onLoad |-> [contents |-> data, loader |-> "css",
               resolveDir |-> dirname(filename)]]

UnshiftPlugin(plugins, plugin) == <<plugin>> \o plugins

\* buildOptions.plugins.push({...})
PushPlugin(plugins, plugin) == Append(plugins, plugin)

\* The synchronous start of a call, up to await context.bundle().  entry is
\* [language, id, filename].join(';'), kept as its three parts.
bundleComponentStylesheet(b, language, data, filename, inline, options) ==
  /\ bundle[b].pc = "idle"
  /\ LET id == ComponentStyleId(inline, data, componentStyleCounter)
         entry == <<language, id, filename>>
         created == BuildOptions(options, [entry |-> entry, data |-> data])
         buildOptions ==
           [f \in DOMAIN created \cup {"entryPoints"} |->
              IF f = "entryPoints" THEN <<<<namespace, entry>>>>
              ELSE IF f = "plugins"
                THEN PushPlugin(created.plugins,
                       ComponentStylesPlugin(entry, data, filename, inline))
                ELSE created[f]]
     IN bundle' = [bundle EXCEPT ![b] =
          [pc |-> "bundling", language |-> language, data |-> data,
           filename |-> filename, inline |-> inline, options |-> options,
           id |-> id,
           entry |-> entry, buildOptions |-> buildOptions]]
  /\ componentStyleCounter' = NextStyleCounter(inline, componentStyleCounter)
  /\ UNCHANGED <<compileVars, importVars>>

\* path.basename(p)
basename(p) == p.segs[Len(p.segs)]

\* A file name cut at its dots; a suffix such as '.css' cuts into an empty
\* first part and 'css'.
SplitAtDots(name) ==
  CASE name = "main.css" -> <<"main", "css">>
    [] name = "shared.css" -> <<"shared", "css">>
    [] name = "main.css.map" -> <<"main", "css", "map">>
    [] name = "media.map" -> <<"media", "map">>
    [] name = "icons.css.png" -> <<"icons", "css", "png">>
    [] name = "logo.png" -> <<"logo", "png">>
    [] name = ".css" -> <<"", "css">>
    [] name = ".css.map" -> <<"", "css", "map">>
    [] name = ".map" -> <<"", "map">>

\* String.prototype.endsWith for a suffix that begins with a dot.
endsWith(name, suffix) ==
  LET n == SplitAtDots(name)
      s == SplitAtDots(suffix)
  IN /\ Len(n) >= Len(s)
     /\ \A i \in 2..Len(s) : n[Len(n) - Len(s) + i] = s[i]

OutputClassAnyMap(filename) ==
  IF endsWith(filename, ".css") THEN "css"
  ELSE IF endsWith(filename, ".map") THEN "map"
  ELSE "resource"

\* The branch the loop over result.outputFiles takes for a file name.
OutputClass(filename) ==
  IF endsWith(filename, ".css") THEN "css"
  ELSE IF endsWith(filename, ".css.map") THEN "map"
  ELSE "resource"

\* The loop over result.outputFiles, from the files still to visit and the
\* values of contents, map, outputPath and resourceFiles so far.
RECURSIVE ExtractFrom(_, _)
ExtractFrom(outputFiles, found) ==
  IF outputFiles = <<>> THEN found
  ELSE LET outputFile == Head(outputFiles)
           class == OutputClass(basename(outputFile.path))
       IN ExtractFrom(Tail(outputFiles),
            CASE class = "css" ->
                   [found EXCEPT !.outputPath = Some(outputFile.path),
                                 !.contents = outputFile.text]
              [] class = "map" ->
                   [found EXCEPT !.map = Some(outputFile.text)]
              [] class = "resource" ->
                   [found EXCEPT !.resourceFiles = Append(@, outputFile)])

\* let contents = ''; let map; let outputPath; const resourceFiles = [];
NothingExtracted ==
  [contents |-> "", map |-> undefined, outputPath |-> undefined,
   resourceFiles |-> <<>>]

Extracted(result) ==
  IF ~result.errors.defined
    THEN ExtractFrom(result.outputFiles, NothingExtracted)
    ELSE NothingExtracted

MarkComponentOutputKeepsEntry(output) ==
  [f \in DOMAIN output \cup {"ng-component"} |->
     IF f = "ng-component" THEN TRUE ELSE output[f]]

\* delete output.entryPoint; output['ng-component'] = true;
MarkComponentOutput(output) ==
  [f \in (DOMAIN output \ {"entryPoint"}) \cup {"ng-component"} |->
     IF f = "ng-component" THEN TRUE ELSE output[f]]

\* let metafile; if (!result.errors) { metafile = result.metafile; ... }
ComponentMetafile(result) ==
  IF ~result.errors.defined
    THEN Some([result.metafile EXCEPT !.outputs =
                 [k \in DOMAIN @ |-> MarkComponentOutput(@[k])]])
    ELSE undefined

BundleReturnDropsWarnings(result) ==
  [errors |-> result.errors,
   warnings |-> <<>>,
   contents |-> Extracted(result).contents,
   map |-> Extracted(result).map,
   path |-> Extracted(result).outputPath,
   resourceFiles |-> Extracted(result).resourceFiles,
   metafile |-> ComponentMetafile(result)]

\* What the call returns for the result of context.bundle().
BundleReturn(result) ==
  [errors |-> result.errors,
   warnings |-> result.warnings,
   contents |-> Extracted(result).contents,
   map |-> Extracted(result).map,
   path |-> Extracted(result).outputPath,
   resourceFiles |-> Extracted(result).resourceFiles,
   metafile |-> ComponentMetafile(result)]

\* await context.bundle() settles with result and the call returns.
BundleSettled(b, result) ==
  /\ bundle[b].pc = "bundling"
  /\ bundle' = [bundle EXCEPT ![b] =
       [f \in DOMAIN @ \cup {"result", "returned"} |->
          CASE f = "pc" -> "done"
            [] f = "result" -> result
            [] f = "returned" -> BundleReturn(result)
            [] OTHER -> @[f]]]
  /\ UNCHANGED <<componentStyleCounter, compileVars, importVars>>

(* --------------------------- environments ------------------------------ *)

WorkspaceRoot == absWorkingDir

\* BundleStylesheetOptions values of a build.
BundleOptions ==
  [workspaceRoot : {WorkspaceRoot},
   sourcemap : {"false", "true", "external", "inline"},
   includePaths : {undefined, Some(<<>>), Some(<<Rel(<<"inc">>)>>),
                   Some(<<Rel(<<"inc">>), Abs(<<"lib">>)>>)}]

FilePaths == {Abs(<<"ws", "app", "a.scss">>), Abs(<<"ws", "b.sass">>)}

\* The arguments of process(): the file, its format, and the plugin options
\* made from the build's bundle options.
InputOf(filePath, format, bundleOptions) ==
  [filePath |-> filePath, format |-> format, bundleOptions |-> bundleOptions,
   options |-> createStylesheetBundleOptions(bundleOptions)]

Inputs ==
  {InputOf(f, fm, o) : f \in FilePaths, fm \in {"scss", "sass"}, o \in BundleOptions}

\* The one input of the concurrency view.
PlainInput ==
  InputOf(Abs(<<"ws", "app", "a.scss">>), "scss",
          [workspaceRoot |-> WorkspaceRoot, sourcemap |-> "false",
           includePaths |-> undefined])

Urls == {pathToFileURL(p) : p \in FilePaths}

Spans ==
  {undefined} \cup
  {Some([url |-> u, context |-> "ctx", start |-> [line |-> l, column |-> 0]]) :
     u \in {undefined, Some(pathToFileURL(Abs(<<"ws", "app", "a.scss">>)))},
     l \in 0..MaxLine}

Compiled ==
  [css : {"css"},
   sourceMap : {undefined, Some([sources |-> <<pathToFileURL(Abs(<<"ws", "b.sass">>))>>])},
   loadedUrls : {<<>>, <<pathToFileURL(Abs(<<"ws", "app", "a.scss">>))>>,
                 <<pathToFileURL(Abs(<<"ws", "app", "a.scss">>)),
                   pathToFileURL(Abs(<<"ws", "b.sass">>))>>}]

SassExceptions ==
  [typeof : {"object"}, keys : {{"sassMessage", "message", "span"}},
   message : {"sass failed"},
   span : {[url |-> u] : u \in {undefined} \cup {Some(x) : x \in Urls}}]

OtherErrors ==
  {[typeof |-> "object", keys |-> {"message"}, message |-> "boom"],
   [typeof |-> "string", keys |-> {}, message |-> "boom"]}

Errors == SassExceptions \cup OtherErrors

\* The outcomes of the concurrency view: one success, one Sass exception, one
\* other error.
PlainCompiled ==
  [css |-> "css", sourceMap |-> undefined, loadedUrls |-> <<>>]

PlainErrors ==
  {[typeof |-> "object", keys |-> {"sassMessage", "message", "span"},
    message |-> "sass failed", span |-> [url |-> undefined]],
   [typeof |-> "object", keys |-> {"message"}, message |-> "boom"]}

\* Import specifiers, split on '/'.
Specifiers ==
  {<<"pkg">>, <<"pkg", "a">>, <<"pkg", "a", "b">>, <<"@s">>, <<"@s", "pkg">>,
   <<"@s", "pkg", "a">>, <<"@s", "pkg", "a", "b">>, <<"pkg", "", "a">>}

\* The directories of earlier successful resolutions, by number.
PreviousDir(k) == Abs(<<"store">> \o [i \in 1..k |-> "m"])

\* previousResolvedModules: a Set, iterated in insertion order.
PreviousSets ==
  {s \in UNION {[1..n -> {PreviousDir(k) : k \in 1..MaxPrevious}] : n \in 0..MaxPrevious} :
     \A i, j \in DOMAIN s : i # j => s[i] # s[j]}

\* Stylesheet texts, languages and source files of component styles.
StyleData == {".a { color: red; }", ".b { color: blue; }"}
Languages == {"css", "scss"}
ComponentFiles == {Abs(<<"ws", "app", "a.component.ts">>),
                   Abs(<<"ws", "app", "b.component.ts">>)}

PlainOptions ==
  [workspaceRoot |-> WorkspaceRoot, sourcemap |-> "false",
   includePaths |-> undefined]

\* Output files esbuild may hand back, each with its text.
OutputFileNames ==
  {"main.css", "shared.css", "main.css.map", "media.map", "icons.css.png",
   "logo.png"}
OutputFile(name) == [path |-> Abs(<<"ws", name>>), text |-> name]
OutputFileLists ==
  {s \in UNION {[1..n -> {OutputFile(name) : name \in OutputFileNames}] :
                  n \in 0..MaxFiles} :
     \A i, j \in DOMAIN s : i # j => s[i] # s[j]}

\* The metafile of a pass: one output entry per file, keyed by file name,
\* the entries of marked carrying the entry point of the pass.
MetafileOf(outputFiles, marked, entryPoint) ==
  [inputs |-> <<>>,
   outputs |->
     [k \in {basename(outputFiles[i].path) : i \in DOMAIN outputFiles} |->
        IF k \in marked
          THEN [bytes |-> 1, entryPoint |-> entryPoint]
          ELSE [bytes |-> 1]]]

BundleWarnings == {<<>>, <<[text |-> "unused rule"]>>}
BundleErrors == {<<[text |-> "unterminated block"]>>}

\* Results of a pass that produced output.
Succeeded(entryPoint) ==
  {[errors |-> undefined, warnings |-> w, outputFiles |-> fs,
    metafile |-> MetafileOf(fs, m, entryPoint)] :
     w \in BundleWarnings, fs \in OutputFileLists,
     m \in {{}, {"main.css"}, OutputFileNames}}

\* Results of a pass that reported errors, with and without partial output.
Errored(entryPoint) ==
  {[errors |-> Some(e), warnings |-> w] :
     e \in BundleErrors, w \in BundleWarnings}
  \cup
  {[errors |-> Some(e), warnings |-> w,
    outputFiles |-> <<OutputFile("main.css"), OutputFile("logo.png")>>,
    metafile |-> MetafileOf(<<OutputFile("main.css")>>, {"main.css"}, entryPoint)] :
     e \in BundleErrors, w \in BundleWarnings}

\* What context.bundle() may settle with for a call that awaits it.
BundleResults(b) ==
  IF bundle[b].pc = "bundling"
    THEN LET entryPoint == bundle[b].buildOptions.entryPoints[1]
         IN Succeeded(entryPoint) \cup Errored(entryPoint)
    ELSE {}

\* The two results of the session view.
PlainResults(b) ==
  IF bundle[b].pc = "bundling"
    THEN LET entryPoint == bundle[b].buildOptions.entryPoints[1]
             fs == <<OutputFile("main.css")>>
         IN {[errors |-> undefined, warnings |-> <<>>, outputFiles |-> fs,
              metafile |-> MetafileOf(fs, {"main.css"}, entryPoint)],
             [errors |-> Some(<<[text |-> "unterminated block"]>>),
              warnings |-> <<>>]}
    ELSE {}


Init ==
  /\ sassWorkerPool = NoPool
  /\ pools = <<>>
  /\ pc = [r \in Requests |-> "idle"]
  /\ input = [r \in Requests |-> NoInput]
  /\ call = [r \in Requests |-> NoCall]
  /\ warnings = [r \in Requests |-> <<>>]
  /\ outcome = [r \in Requests |-> Pending]
  /\ reply = [r \in Requests |-> Pending]
  /\ reported = [r \in Requests |-> <<>>]
  /\ shutdownSeen = FALSE
  /\ shutdownRun = 0
  /\ reusedAfterFailure = FALSE
  /\ startedSinceShutdown = FALSE
  /\ imp = [pc |-> "idle", url |-> <<>>, previous |-> <<>>, attempt |-> 1, dir |-> 0]
  /\ resolveLog = <<>>
  /\ ret = [kind |-> "none"]
  /\ componentStyleCounter = 0
  /\ bundle = [b \in BundleCalls |-> NotCalled]

\* Concurrent compilations and shutdowns.
Next ==
  \/ \E r \in Requests : compileString(r, PlainInput)
  \/ \E r \in Requests : ConstructPool(r)
  \/ \E r \in Requests : CompileResolved(r, PlainCompiled)
  \/ \E r \in Requests, e \in PlainErrors : CompileRejected(r, e)
  \/ shutdownSassWorkerPool

Spec == Init /\ [][Next]_vars

\* One compilation with every input, warning and outcome.
NextCompile ==
  \/ \E in \in Inputs : compileString(1, in)
  \/ ConstructPool(1)
  \/ \E d \in BOOLEAN, s \in Spans : LoggerWarnCall(1, "warn", d, s)
  \/ \E c \in Compiled : CompileResolved(1, c)
  \/ \E e \in Errors : CompileRejected(1, e)

SpecCompile == Init /\ [][NextCompile]_vars

\* What build.resolve may answer to the pending call: no path, or a path
\* below the directory it was asked to resolve from.
ResolveAnswers ==
  LET asked == Asked(imp.url, Attempts[imp.attempt])
      resolveDir == IF imp.dir = 0 THEN absWorkingDir ELSE imp.previous[imp.dir]
  IN {undefined, Some(Abs(resolveDir.segs \o <<"node_modules">> \o asked))}

\* One import resolution with every answer of build.resolve.
NextImport ==
  \/ \E u \in Specifiers, p \in PreviousSets : findFileUrl(u, p)
  \/ \E path \in ResolveAnswers : BuildResolve(path)

SpecImport == Init /\ [][NextImport]_vars

\* A session of component stylesheet bundling calls.
NextBundle ==
  \/ \E b \in BundleCalls, l \in Languages, d \in StyleData,
        f \in ComponentFiles, i \in BOOLEAN :
       bundleComponentStylesheet(b, l, d, f, i, PlainOptions)
  \/ \E b \in BundleCalls : \E result \in PlainResults(b) : BundleSettled(b, result)

SpecBundle == Init /\ [][NextBundle]_vars

\* One bundling call with every option value and every result of the pass.
NextBundlePass ==
  \/ \E i \in BOOLEAN, o \in BundleOptions :
       bundleComponentStylesheet(1, "scss", ".a { color: red; }",
                                 Abs(<<"ws", "app", "a.component.ts">>), i, o)
  \/ \E result \in BundleResults(1) : BundleSettled(1, result)

SpecBundlePass == Init /\ [][NextBundlePass]_vars

(* ------------------------------- claims -------------------------------- *)

\* C1 (as claimed): with no shutdown so far, at most one worker pool has been
\* constructed and every compilation request was dispatched to that instance.
C1_OnePoolShared ==
  ~shutdownSeen =>
    /\ Len(pools) <= 1
    /\ \A r, s \in Requests :
         call[r].issued /\ call[s].issued => call[r].pool = call[s].pool

\* C2: a shutdown call always leaves "no pool", closes at most the current
\* pool and that at most once, closes nothing when there is no pool, and a
\* second call in a row changes nothing a first call left.
C2_ShutdownIdempotent ==
  [][shutdownRun' = shutdownRun + 1 =>
       /\ sassWorkerPool' = NoPool
       /\ Len(pools') = Len(pools)
       /\ \A i \in 1..Len(pools) :
            /\ pools'[i].closeCalls <= 1
            /\ pools'[i].closeCalls =
                 pools[i].closeCalls + (IF i = sassWorkerPool THEN 1 ELSE 0)
       /\ (shutdownRun >= 1 =>
             <<sassWorkerPool, pools, pc, input, call, warnings, outcome>>'
               = <<sassWorkerPool, pools, pc, input, call, warnings, outcome>>)
    ]_vars

\* C2 witness: two shutdown calls in a row after a pool had been constructed
\* and closed by the first of them.
C2_Witness ==
  /\ shutdownRun >= 2
  /\ sassWorkerPool = NoPool
  /\ \E i \in 1..Len(pools) : pools[i].closeCalls = 1

\* The build.resolve calls findFileUrl issues when every one of them fails:
\* the specifier and package.json in absWorkingDir, then each of them again in
\* absWorkingDir and in the previous directories.
ResolveSchedule(url, previous) ==
  LET pkg == packageName(url) \o <<"package.json">>
      dirs == <<absWorkingDir>> \o previous
      In(u, ds) == [i \in 1..Len(ds) |-> [url |-> u, resolveDir |-> ds[i]]]
  IN In(url, <<absWorkingDir>>) \o In(pkg, <<absWorkingDir>>)
       \o In(url, dirs) \o In(pkg, dirs)

\* C3 (as claimed): no package.json lookup is issued before the specifier has
\* been tried against every previously resolved directory.
C3_PreviousBeforePackageJson ==
  \A i \in 1..Len(resolveLog) :
    Attempts[resolveLog[i].attempt].asks = "package.json" =>
      \A k \in 1..Len(imp.previous) :
        \E j \in 1..(i - 1) :
          /\ resolveLog[j].url = imp.url
          /\ resolveLog[j].resolveDir = imp.previous[k]

\* C3 (amended): the calls are issued in the order specifier in absWorkingDir,
\* package.json in absWorkingDir, specifier in absWorkingDir and each previous
\* directory, package.json in absWorkingDir and each previous directory; each
\* call is issued only after all earlier ones returned no path.
C3_ResolutionOrder ==
  imp.pc # "idle" =>
    LET schedule == ResolveSchedule(imp.url, imp.previous)
    IN /\ Len(resolveLog) <= Len(schedule)
       /\ \A i \in 1..Len(resolveLog) :
            /\ resolveLog[i].url = schedule[i].url
            /\ resolveLog[i].resolveDir = schedule[i].resolveDir
            /\ i < Len(resolveLog) => ~resolveLog[i].path.defined

\* C3 witness: with two previous directories, package.json was looked up in
\* absWorkingDir second, and the specifier reached a previous directory later.
C3_Witness ==
  /\ Len(imp.previous) = 2
  /\ Len(resolveLog) >= 4
  /\ resolveLog[2].url = packageName(imp.url) \o <<"package.json">>
  /\ resolveLog[2].resolveDir = absWorkingDir
  /\ resolveLog[4].url = imp.url
  /\ resolveLog[4].resolveDir = imp.previous[1]

\* C4: findFileUrl returns null or a URL; it returns null exactly when no
\* build.resolve call returned a path, and then every attempt has been made:
\* the specifier and package.json, in absWorkingDir and every previous directory.
C4_NullIffNothingResolved ==
  imp.pc = "done" =>
    /\ ret.kind \in {"null", "url"}
    /\ ret.kind = "null" <=>
         \A i \in 1..Len(resolveLog) : ~resolveLog[i].path.defined
    /\ ret.kind = "null" =>
         {<<resolveLog[i].url, resolveLog[i].resolveDir>> : i \in 1..Len(resolveLog)}
           = {imp.url, packageName(imp.url) \o <<"package.json">>}
               \X ({absWorkingDir} \cup {imp.previous[k] : k \in 1..Len(imp.previous)})

\* C4 witness: every attempt failed with previous directories present, and
\* null was returned.
C4_Witness ==
  /\ imp.pc = "done"
  /\ ret.kind = "null"
  /\ Len(imp.previous) >= 1
  /\ Len(resolveLog) = 4 + 2 * Len(imp.previous)

\* The rejection a finished call got was a Sass exception.
RejectedWithSassException(r) ==
  /\ pc[r] = "done"
  /\ reply[r].kind = "rejected"
  /\ reply[r].error.typeof = "object"
  /\ "sassMessage" \in reply[r].error.keys

\* C5: a rejection with a Sass exception is returned, not thrown: loader
\* 'css', one error with the exception's message, and watchFiles the one
\* offending file when the span has a url, undefined otherwise.
C5_SassExceptionBecomesResult ==
  \A r \in Requests :
    RejectedWithSassException(r) =>
      /\ outcome[r].kind = "returned"
      /\ outcome[r].value.loader = "css"
      /\ Len(outcome[r].value.errors) = 1
      /\ outcome[r].value.errors[1].text = reply[r].error.message
      /\ outcome[r].value.watchFiles =
           IF reply[r].error.span.url.defined
             THEN Some(<<Abs(reply[r].error.span.url.value.pathname)>>)
             ELSE undefined

\* C5 witness: a Sass exception whose span has a url was turned into a result.
C5_Witness ==
  \E r \in Requests :
    /\ RejectedWithSassException(r)
    /\ reply[r].error.span.url.defined
    /\ outcome[r].kind = "returned"

\* C6: a rejection that is not a Sass exception is rethrown as it is: nothing
\* is returned for it.
C6_OtherErrorsRethrown ==
  \A r \in Requests :
    (pc[r] = "done" /\ reply[r].kind = "rejected" /\ ~RejectedWithSassException(r)) =>
      outcome[r] = [kind |-> "thrown", error |-> reply[r].error]

\* C6 witness: an error object without sassMessage was thrown by compileString.
C6_Witness ==
  \E r \in Requests :
    /\ pc[r] = "done"
    /\ reply[r].kind = "rejected"
    /\ reply[r].error.typeof = "object"
    /\ "sassMessage" \notin reply[r].error.keys
    /\ outcome[r].kind = "thrown"

\* C7: the step in which a compilation fails leaves sassWorkerPool, the pools
\* and every other call as they were; and a call that starts while a pool
\* exists is dispatched to that pool, which is not closed, with no pool
\* constructed.
C7_FailureLeavesPoolUsable ==
  [][/\ \A r \in Requests :
          (pc[r] = "compiling" /\ Failed(r)') =>
            /\ sassWorkerPool' = sassWorkerPool
            /\ pools' = pools
            /\ \A s \in Requests \ {r} :
                 <<pc[s], call[s], warnings[s], outcome[s]>>'
                   = <<pc[s], call[s], warnings[s], outcome[s]>>
     /\ \A r \in Requests :
          (pc[r] = "idle" /\ pc'[r] # "idle" /\ sassWorkerPool # NoPool) =>
            /\ pools' = pools
            /\ pools[sassWorkerPool].closeCalls = 0
            /\ call'[r].issued
            /\ call'[r].pool = sassWorkerPool
    ]_vars

\* C7 witness: after a call failed, another call was dispatched to the same
\* pool, the only one constructed, still open and still the current one.
C7_Witness ==
  /\ reusedAfterFailure
  /\ \E r, s \in Requests :
       /\ r # s
       /\ Failed(r)
       /\ call[s].issued
       /\ call[s].pool = call[r].pool
       /\ sassWorkerPool = call[r].pool
  /\ Len(pools) = 1
  /\ pools[1].closeCalls = 0

\* C8: every message the logger was given is in the result's warnings, in
\* order, with line = engine line + 1 when it has a span, and none of them is
\* in errors; for a success result and for a Sass exception result alike.
C8_LoggerMessagesAreWarnings ==
  \A r \in Requests :
    (pc[r] = "done" /\ outcome[r].kind = "returned") =>
      LET res == outcome[r].value
      IN /\ Len(res.warnings) = Len(reported[r])
         /\ \A i \in 1..Len(reported[r]) :
              LET m == reported[r][i]
                  w == res.warnings[i]
              IN /\ IF m.deprecation
                      THEN w.notes = Some(<<[text |-> m.text]>>)
                      ELSE w.text = m.text
                 /\ m.span.defined <=> w.location.defined
                 /\ m.span.defined =>
                      w.location.value.line = m.span.value.start.line + 1
         /\ "errors" \in DOMAIN res =>
              \A j \in 1..Len(res.errors), i \in 1..Len(reported[r]) :
                res.errors[j].text # reported[r][i].text

\* C8 witness: a Sass exception result that carries a deprecation warning
\* reported at the largest engine line.
C8_Witness ==
  \E r \in Requests :
    /\ pc[r] = "done"
    /\ outcome[r].kind = "returned"
    /\ "errors" \in DOMAIN outcome[r].value
    /\ Len(reported[r]) >= 1
    /\ reported[r][1].deprecation
    /\ reported[r][1].span.defined
    /\ reported[r][1].span.value.start.line = MaxLine

\* A finished call returned a result made from a Sass exception.
ReturnedErrors(r) ==
  /\ pc[r] = "done"
  /\ outcome[r].kind = "returned"
  /\ "errors" \in DOMAIN outcome[r].value

\* C9 (as claimed): every entry of the returned errors list has a location.
C9_ErrorsCarryLocation ==
  \A r \in Requests :
    ReturnedErrors(r) =>
      \A j \in 1..Len(outcome[r].value.errors) :
        "location" \in DOMAIN outcome[r].value.errors[j]

\* C9 (amended): every entry of the returned errors list is the message text
\* alone, with no location; the offending file is reported through watchFiles.
C9_ErrorsAreTextOnly ==
  \A r \in Requests :
    ReturnedErrors(r) =>
      /\ outcome[r].value.errors # <<>>
      /\ \A j \in 1..Len(outcome[r].value.errors) :
           DOMAIN outcome[r].value.errors[j] = {"text"}
      /\ reply[r].error.span.url.defined => outcome[r].value.watchFiles.defined

\* C9 witness: an error result for an exception whose span names a file.
C9_Witness ==
  \E r \in Requests :
    /\ ReturnedErrors(r)
    /\ reply[r].error.span.url.defined
    /\ outcome[r].value.watchFiles.defined

\* The configured include paths of a call, made absolute.
AbsoluteIncludePaths(r) ==
  LET o == input[r].bundleOptions
  IN IF o.includePaths.defined
       THEN {resolve(o.workspaceRoot, o.includePaths.value[i]) :
               i \in 1..Len(o.includePaths.value)}
       ELSE {}

\* C10 (as claimed): the search paths of a compilation are the configured
\* include paths made absolute plus the directory of the entry stylesheet.
C10_SearchPathsIncludeEntryDir ==
  \A r \in Requests :
    call[r].issued =>
      /\ call[r].options.loadPaths.defined
      /\ {call[r].options.loadPaths.value[i] :
            i \in 1..Len(call[r].options.loadPaths.value)}
           = AbsoluteIncludePaths(r) \cup {dirname(input[r].filePath)}

\* C10 (amended): the search paths of a compilation are exactly the configured
\* include paths, in order, each absolute as it is or else below the workspace
\* root, and undefined when none are configured; the entry stylesheet is
\* handed over as the url.
C10_SearchPathsAreIncludePaths ==
  \A r \in Requests :
    call[r].issued =>
      LET o == input[r].bundleOptions
          loadPaths == call[r].options.loadPaths
      IN /\ loadPaths.defined <=> o.includePaths.defined
         /\ loadPaths.defined =>
              /\ Len(loadPaths.value) = Len(o.includePaths.value)
              /\ \A i \in 1..Len(loadPaths.value) :
                   loadPaths.value[i] =
                     IF o.includePaths.value[i].abs
                       THEN o.includePaths.value[i]
                       ELSE Abs(o.workspaceRoot.segs \o o.includePaths.value[i].segs)
         /\ call[r].options.url.protocol = "file:"
         /\ call[r].options.url.pathname = input[r].filePath.segs

\* C10 witness: a compilation with a relative and an absolute include path,
\* neither of them the entry's directory.
C10_Witness ==
  \E r \in Requests :
    /\ call[r].issued
    /\ input[r].bundleOptions.includePaths.defined
    /\ Len(input[r].bundleOptions.includePaths.value) = 2
    /\ dirname(input[r].filePath) \notin AbsoluteIncludePaths(r)

\* The number of build.resolve calls the resolveUrl call of entry i had issued
\* before entry i.
EarlierInCall(i) ==
  Cardinality({j \in 1..(i - 1) : resolveLog[j].attempt = resolveLog[i].attempt})

\* C16: a resolveUrl call asks absWorkingDir first; it goes on to the previous
\* directories only when it was given some and the call before returned no
\* path, takes them one at a time in iteration order, issues no call after one
\* that returned a path (that result is what findFileUrl returns from), and
\* gives up only after the last directory failed.
C16_PreviousDirectoriesInOrder ==
  \A i \in 1..Len(resolveLog) :
    LET e == resolveLog[i]
        k == EarlierInCall(i)
        passed == Attempts[e.attempt].previous
        last == i = Len(resolveLog) \/ resolveLog[i + 1].attempt # e.attempt
        over == i < Len(resolveLog) \/ imp.pc = "done"
    IN /\ k = 0 => e.resolveDir = absWorkingDir
       /\ k > 0 =>
            /\ passed
            /\ resolveLog[i - 1].attempt = e.attempt
            /\ ~resolveLog[i - 1].path.defined
            /\ k <= Len(imp.previous)
            /\ e.resolveDir = imp.previous[k]
       /\ e.path.defined =>
            /\ i = Len(resolveLog)
            /\ imp.pc = "done"
            /\ ret.kind = "url"
       /\ (last /\ over /\ ~e.path.defined) =>
            k = IF passed THEN Len(imp.previous) ELSE 0

\* C16 witness: with two previous directories, the retry of the specifier
\* failed in absWorkingDir and in the first previous directory and returned a
\* path from the second.
C16_Witness ==
  /\ imp.pc = "done"
  /\ Len(imp.previous) = 2
  /\ Len(resolveLog) = 5
  /\ resolveLog[4].resolveDir = imp.previous[1]
  /\ ~resolveLog[4].path.defined
  /\ resolveLog[5].resolveDir = imp.previous[2]
  /\ resolveLog[5].path.defined

\* The last build.resolve call asked for package.json and returned a path.
PackageJsonFound ==
  /\ imp.pc = "done"
  /\ ret.kind = "url"
  /\ resolveLog # <<>>
  /\ Attempts[resolveLog[Len(resolveLog)].attempt].asks = "package.json"

\* C17: the package name is the first two segments of a specifier whose first
\* segment starts with '@' and that has two segments at least, its first
\* segment otherwise; when package.json resolves to P the target is dirname(P)
\* joined with the segments that follow the package name, in order.
C17_DeepImportTarget ==
  LET parts == imp.url
      n == IF Len(parts) >= 2 /\ parts[1] \in ScopeSegments THEN 2 ELSE 1
      rest == SubSeq(parts, n + 1, Len(parts))
  IN /\ \A i \in 1..Len(resolveLog) :
          Attempts[resolveLog[i].attempt].asks = "package.json" =>
            resolveLog[i].url = SubSeq(parts, 1, n) \o <<"package.json">>
     /\ PackageJsonFound =>
          LET P == resolveLog[Len(resolveLog)].path.value.segs
          IN /\ ret.url.protocol = "file:"
             /\ ret.url.pathname =
                  SubSeq(P, 1, Len(P) - 1) \o SelectSeq(rest, LAMBDA x : x # "")

\* C17 witness: a scoped specifier with two segments after the package name
\* was resolved through package.json.
C17_Witness ==
  /\ PackageJsonFound
  /\ imp.url = <<"@s", "pkg", "a", "b">>
  /\ Len(ret.url.pathname) >= 2
  /\ SubSeq(ret.url.pathname, Len(ret.url.pathname) - 1, Len(ret.url.pathname))
       = <<"a", "b">>

\* C19 (as claimed): once a shutdown call has returned, no call was entered
\* after it and every call entered before it has finished, close() has been
\* called on every pool that was constructed.
C19_ShutdownClosesEveryPool ==
  (/\ shutdownSeen
   /\ ~startedSinceShutdown
   /\ \A r \in Requests : pc[r] \in {"idle", "done"}) =>
    \A i \in 1..Len(pools) : pools[i].closeCalls >= 1

\* C20: a call is dispatched only to a pool on which close() has not been
\* called, and close() is called on no pool more than once.
C20_NoUseAfterClose ==
  [][/\ \A r \in Requests :
          (~call[r].issued /\ call'[r].issued) =>
            /\ call'[r].pool \in 1..Len(pools')
            /\ pools'[call'[r].pool].closeCalls = 0
     /\ \A i \in 1..Len(pools') : pools'[i].closeCalls <= 1
    ]_vars

\* C20 witness: the first pool has been closed, and a call was dispatched to a
\* second pool constructed after that.
C20_Witness ==
  /\ Len(pools) = 2
  /\ pools[1].closeCalls = 1
  /\ pools[2].closeCalls = 0
  /\ shutdownSeen
  /\ \E r \in Requests : call[r].issued /\ call[r].pool = 2

\* The calls that have passed their synchronous start.
Started == {b \in BundleCalls : bundle[b].pc # "idle"}

C12_ExternalIdsIncrease ==
  [][\A b \in BundleCalls :
       (bundle[b].pc = "idle" /\ bundle'[b].pc # "idle") =>
         IF bundle'[b].inline
           THEN componentStyleCounter' = componentStyleCounter
           ELSE /\ bundle'[b].id = Counter(componentStyleCounter)
                /\ componentStyleCounter' = componentStyleCounter + 1
                /\ \A a \in Started :
                     ~bundle[a].inline => bundle[a].id.n < bundle'[b].id.n
    ]_vars

\* Two external calls have started; the later one holds the larger value.
C12_Witness ==
  \E a, b \in Started :
    /\ ~bundle[a].inline /\ ~bundle[b].inline
    /\ bundle[a].id.n < bundle[b].id.n
    /\ componentStyleCounter = 2

\* The four plugins of createStylesheetBundleOptions, by what makes them.
StylesheetPlugins ==
  <<"SassStylesheetLanguage", "LessStylesheetLanguage",
    "CssStylesheetLanguage", "createCssResourcePlugin">>

\* C13: for every options value createStylesheetBundleOptions returns the
\* plugins Sass, Less, CSS, resource loader in this order, and the build
\* options of a bundleComponentStylesheet call hold these four unchanged in
\* the first four places with the entry-point plugin appended after them.
C13_PluginOrder ==
  /\ \A o \in BundleOptions, d \in StyleData :
       LET plugins == BuildOptions(o, [entry |-> <<"css", Counter(0), "f">>,
                                       data |-> d]).plugins
       IN /\ Len(plugins) = 4
          /\ \A i \in 1..4 : plugins[i].plugin = StylesheetPlugins[i]
  /\ \A b \in Started :
       LET plugins == bundle[b].buildOptions.plugins
       IN /\ Len(plugins) = 5
          /\ \A i \in 1..4 : plugins[i].plugin = StylesheetPlugins[i]
          /\ SubSeq(plugins, 1, 4) =
               BuildOptions(bundle[b].options,
                            [entry |-> bundle[b].entry,
                             data |-> bundle[b].data]).plugins
          /\ plugins[5].plugin = "angular-component-styles"

\* A call with include paths and a source map has built its options.
C13_Witness ==
  /\ bundle[1].pc = "bundling"
  /\ bundle[1].options.includePaths.defined
  /\ bundle[1].options.sourcemap = "inline"
  /\ Len(bundle[1].buildOptions.plugins) = 5

\* The calls that have returned after a pass without errors, and after a
\* pass that reported errors.
ReturnedAfterSuccess ==
  {b \in BundleCalls : bundle[b].pc = "done" /\ ~bundle[b].result.errors.defined}
ReturnedAfterErrors ==
  {b \in BundleCalls : bundle[b].pc = "done" /\ bundle[b].result.errors.defined}

\* The places in a list of output files whose file name ends in suffix.
PlacesEnding(outputFiles, suffix) ==
  {i \in DOMAIN outputFiles : endsWith(basename(outputFiles[i].path), suffix)}

Last(places) == CHOOSE i \in places : \A j \in places : j <= i

\* C14: after a pass without errors every output file falls in exactly one
\* class by the suffix of its base name: the (last) file ending in '.css'
\* gives contents and path, the (last) one ending in '.css.map' gives map,
\* and resourceFiles is the list of all other files, each once and in their
\* original order, with no '.css' or '.css.map' file in it.
C14_OutputsPartitioned ==
  \A b \in ReturnedAfterSuccess :
    LET outputFiles == bundle[b].result.outputFiles
        returned == bundle[b].returned
        css == PlacesEnding(outputFiles, ".css")
        maps == PlacesEnding(outputFiles, ".css.map")
        IsResource(f) ==
          /\ ~endsWith(basename(f.path), ".css")
          /\ ~endsWith(basename(f.path), ".css.map")
    IN /\ css \cap maps = {}
       /\ IF css = {}
            THEN returned.contents = "" /\ returned.path = undefined
            ELSE /\ returned.contents = outputFiles[Last(css)].text
                 /\ returned.path = Some(outputFiles[Last(css)].path)
       /\ IF maps = {}
            THEN returned.map = undefined
            ELSE returned.map = Some(outputFiles[Last(maps)].text)
       /\ returned.resourceFiles = SelectSeq(outputFiles, IsResource)

\* A pass handed back a resource whose name holds '.css' in the middle, then
\* a map, then the stylesheet, and the call returned all three.
C14_Witness ==
  \E b \in ReturnedAfterSuccess :
    /\ bundle[b].result.outputFiles =
         <<OutputFile("icons.css.png"), OutputFile("main.css.map"),
           OutputFile("main.css")>>
    /\ bundle[b].returned.resourceFiles = <<OutputFile("icons.css.png")>>
    /\ bundle[b].returned.map.defined
    /\ bundle[b].returned.path.defined

\* C15: after a pass without errors every output entry of the returned
\* metafile has no entryPoint field and has 'ng-component' set to true; the
\* entries are those of the pass and keep their other fields.
C15_MetafileOutputsMarked ==
  \A b \in ReturnedAfterSuccess :
    LET before == bundle[b].result.metafile.outputs
        metafile == bundle[b].returned.metafile
    IN /\ metafile.defined
       /\ DOMAIN metafile.value.outputs = DOMAIN before
       /\ \A k \in DOMAIN before :
            LET output == metafile.value.outputs[k]
            IN /\ "entryPoint" \notin DOMAIN output
               /\ output["ng-component"] = TRUE
               /\ output.bytes = before[k].bytes

\* The pass marked the stylesheet as an entry point and the call returned.
C15_Witness ==
  \E b \in ReturnedAfterSuccess :
    \E k \in DOMAIN bundle[b].result.metafile.outputs :
      /\ "entryPoint" \in DOMAIN bundle[b].result.metafile.outputs[k]
      /\ bundle[b].result.metafile.outputs[k].entryPoint =
           <<namespace, bundle[b].entry>>
      /\ bundle[b].returned.metafile.defined

\* C18: when the pass reports errors the call returns, with the errors and
\* warnings of the pass unchanged, contents the empty string, map, path and
\* metafile undefined and resourceFiles empty, whether or not the result of
\* the pass carries output files or a metafile.
C18_ErrorsReturnedAsData ==
  \A b \in ReturnedAfterErrors :
    bundle[b].returned =
      [errors |-> bundle[b].result.errors,
       warnings |-> bundle[b].result.warnings,
       contents |-> "",
       map |-> undefined,
       path |-> undefined,
       resourceFiles |-> <<>>,
       metafile |-> undefined]

\* A pass reported an error and a warning next to partial output, and the
\* call returned.
C18_Witness ==
  \E b \in ReturnedAfterErrors :
    /\ bundle[b].result.errors.value # <<>>
    /\ bundle[b].result.warnings # <<>>
    /\ "outputFiles" \in DOMAIN bundle[b].result
    /\ bundle[b].returned.errors = bundle[b].result.errors

\* The warnings the logger has pushed for the engine reports of a call.
LoggedWarnings(r) ==
  [i \in 1..Len(reported[r]) |->
     LoggerWarn(reported[r][i].text, reported[r][i].deprecation,
                reported[r][i].span)]

\* C21: a result compileString returns carries one of two outcomes and never
\* both: after a resolved compilation it has contents, no errors field and
\* one watchFiles entry per loaded URL in the compiler's order; after a Sass
\* exception it has a non-empty errors list and no contents.  Either way its
\* warnings are all the warnings logged before the outcome, in the order
\* they were logged.
C21_OneOutcomeWithAllWarnings ==
  \A r \in Requests :
    (pc[r] = "done" /\ outcome[r].kind = "returned") =>
      LET res == outcome[r].value
          Has(field) == field \in DOMAIN res
      IN /\ Has("contents") # Has("errors")
         /\ reply[r].kind = "resolved" =>
              /\ Has("contents") /\ ~Has("errors")
              /\ Len(res.watchFiles) = Len(reply[r].value.loadedUrls)
              /\ \A i \in 1..Len(res.watchFiles) :
                   res.watchFiles[i] = Abs(reply[r].value.loadedUrls[i].pathname)
         /\ reply[r].kind = "rejected" =>
              /\ Has("errors") /\ ~Has("contents")
              /\ res.errors # <<>>
         /\ res.warnings = LoggedWarnings(r)

\* A resolved compilation that loaded two URLs and logged two different
\* warnings returned its result.
C21_Witness ==
  \E r \in Requests :
    /\ pc[r] = "done"
    /\ outcome[r].kind = "returned"
    /\ reply[r].kind = "resolved"
    /\ Len(reply[r].value.loadedUrls) = 2
    /\ Len(reported[r]) = 2
    /\ reported[r][1] # reported[r][2]
    /\ Len(outcome[r].value.warnings) = 2

====
